---- MODULE Spec2Model ----
(***************************************************************************)
(* Model of the orchestration engine of app/main.py: the background worker *)
(* run_worker, its helper generate_and_execute, the evaluator client       *)
(* submit_to_evaluator and the audit log record_failed_submission.         *)
(*                                                                         *)
(* One job is one sequential process.  pc is its position:                 *)
(*   "scrape"  about to run PHASE 1 for current_url        (main.py:236)   *)
(*   "gen"     inside the generation loop                  (main.py:152)   *)
(*   "exec"    about to build and execute llm_raw          (main.py:193)   *)
(*   "regen"   about to ask the oracle for a new program   (main.py:206)   *)
(*   "submit"  about to call submit_to_evaluator           (main.py:259)   *)
(*   "record"  about to call record_failed_submission      (main.py:278)   *)
(*   "decide"  at the decision matrix, Case A..D           (main.py:287)   *)
(*   "done"    run_worker has returned                                     *)
(* The scraper, the oracle, the sandbox, the evaluator and the file system *)
(* are the environment: their results are chosen with \E.                  *)
(***************************************************************************)
EXTENDS Integers, Sequences, FiniteSets, TLC

\* ---------------------------------------------------------------- bounds
NumUrls == 2        \* distinct URLs the evaluator can name
MaxSubs == 4        \* submissions the evaluator answers in one job
MaxDepth == 2       \* largest max_depth a crawl is started with
MaxLinks == 2       \* links on one page
MaxLines == 3       \* lines a child process prints

\* ------------------------------------------------------ program constants
MAX_EVAL_RETRIES == 2
MAX_SCRIPT_RETRIES == 3
MAX_PROMPT_ATTEMPTS == 3      \* range(prompt_attempt_start, 4)

\* ---------------------------------------------------------------- values
Urls == 1..NumUrls
SeedUrl == 1                  \* run_worker(initial_url)
NoUrl == 0                    \* resp.get("url") is None or ""
NoFacts == 0
NoErr == "None"               \* Python None used as an error or a reason
NoAnswer == "None"            \* Python None used as an answer
NoProg == "None"              \* llm_raw = None
Answers == {NoAnswer, "42"}   \* result["json"]["answer"]
Reasons == {NoErr, "wrong"}   \* resp.get("reason")

\* oracle output that phase2_llm accepts (markers present, no BAD_PATTERNS):
\* extract_llm_code still rejects a body without final_answer or with fences
LlmOutputs == {"valid", "no_final_answer", "fenced"}

\* what one sandbox run gives back to generate_and_execute
ExecOutcomes == {"ok", "ok_without_answer", "timeout", "nonzero", "not_json"}

\* shapes of the value submit_to_evaluator returns
RespShapes == {"ok", "empty", "no_correct", "no_url"}

VARIABLES
    pc,
    \* run_worker
    current_url, facts, answer, last_error, eval_attempt,
    resp_shape, correct, next_url, reason,
    \* generate_and_execute
    site, g_url, g_last_error, attempt, llm_raw, script_attempt, exec_err,
    \* the environment as the program acts on it
    payload,       \* the last payload posted to the evaluator
    log,           \* failed_submissions.jsonl, one record per line
    \* history
    visits,        \* successful scrapes of this job
    subs,          \* submit_to_evaluator calls since the last scrape
    total_subs,    \* submit_to_evaluator calls of this job
    wrongs,        \* well-formed verdicts with correct = false received
    write_fails,   \* appends to the audit log that raised
    \* extract_webpage_recursive (scrapers.py) and identify_quiz_components
    crawl_pc,      \* "off", "crawl", "done"
    max_depth, seen, pages,
    crawl_call,    \* the call _crawl(u, depth) about to start, or NoCall
    stack,         \* the _crawl calls inside their "for link" loop
    quiz_facts,    \* what identify_quiz_components returns
    fetch_log,     \* history: the extract_single_page calls of this crawl
    tree_gets,     \* history: GETs of the tree listing
    \* extract_single_page (scrapers.py) on its own
    response,      \* what the network answers for the page's URL
    page,          \* the page returned, or NoPage
    \* execute_phase2_script (phase2_executor.py)
    exec_pc,       \* "off", "mkdir", "run", "returned", "raised"
    child,         \* what the child process does
    result,        \* the value returned, or NoResult
    launches,      \* history: subprocess.run calls
    temp_dirs,     \* history: working directories created
    \* generate_and_execute and phase2_llm in detail
    llm_try,       \* phase2_llm's loop variable "attempt"
    gen_requests,  \* history: API requests made by the generation loop
    llm_calls,     \* history: the calls of phase2_llm, with their prompts
    runs,          \* history: the calls of execute_phase2_script
    recent,        \* history: the last error of this URL visit
    visit_requests, \* history: API requests of this URL visit
    \* _download_attachment (scrapers.py), for all the jobs of the process
    gets,          \* history: GETs of attachment URLs
    disk,          \* the files under tempfile.gettempdir(), by path
    attached,      \* the metadata appended to the pages' attachments
    \* the endpoint /phase1 (main.py)
    replies,       \* history: the requests handled, with what was answered
    tasks,         \* the background tasks added, with how far each has run
    \* record_failed_submission (main.py) called by several jobs
    file,          \* failed_submissions.jsonl as the write(2) calls made it
    writer,        \* per job: its calls so far and the call it is in
    \* the per-page processing of identify_quiz_components on its own
    raw_page,      \* the page it is given
    contents,      \* the "contents" of the structured page, or NoContents
    \* run_worker's handling of the text of current_url on its own
    url_pc,        \* "top" of the outer loop, "submit", "done"
    given_url,     \* initial_url, or the next_url the loop was entered with
    url_text,      \* current_url
    url_log        \* history: the URLs scraped and submitted, in order

wvars == <<current_url, facts, answer, last_error, eval_attempt,
           resp_shape, correct, next_url, reason>>
gvars == <<site, g_url, g_last_error, attempt, llm_raw, script_attempt, exec_err>>
evars == <<payload, log>>
hvars == <<visits, subs, total_subs, wrongs, write_fails>>
cvars == <<crawl_pc, max_depth, seen, pages, crawl_call, stack, quiz_facts,
           fetch_log, tree_gets>>
pvars == <<response, page>>
xvars == <<exec_pc, child, result, launches, temp_dirs>>
dvars == <<llm_try, gen_requests, llm_calls, runs, recent, visit_requests>>
svars == <<gets, disk, attached>>
\* the components that share no state with a job's worker
nvars == <<replies, tasks>>
lvars == <<file, writer>>
tvars == <<raw_page, contents>>
uvars == <<url_pc, given_url, url_text, url_log>>
rest == <<svars, nvars, lvars, tvars, uvars>>
jvars == <<pc, wvars, gvars, evars, hvars>>   \* run_worker's
\* what the actions of one component leave alone
ovars == <<cvars, pvars, xvars, dvars, rest>>
not_cvars == <<jvars, pvars, xvars, dvars, rest>>
not_pvars == <<jvars, cvars, xvars, dvars, rest>>
not_xvars == <<jvars, cvars, pvars, dvars, rest>>
not_jdvars == <<cvars, pvars, xvars, rest>>
not_svars == <<jvars, cvars, pvars, xvars, dvars, nvars, lvars, tvars, uvars>>
not_nvars == <<jvars, cvars, pvars, xvars, dvars, svars, lvars, tvars, uvars>>
not_lvars == <<jvars, cvars, pvars, xvars, dvars, svars, nvars, tvars, uvars>>
not_tvars == <<jvars, cvars, pvars, xvars, dvars, svars, nvars, lvars, uvars>>
not_uvars == <<jvars, cvars, pvars, xvars, dvars, svars, nvars, lvars, tvars>>
vars == <<pc, wvars, gvars, evars, hvars, cvars, pvars, xvars, dvars, rest>>

NoPayload == [url |-> NoUrl, answer |-> NoAnswer]

\* ------------------------------------------------- values of the crawler
\* A URL is the sequence of the pieces of its text that the code looks at.
PageUrls == {<<"/a">>, <<"/b">>, <<"/c">>}
SeedPage == <<"/a">>          \* extract_webpage_recursive(url)
NoPageUrl == <<>>
ApiUrl == <<"/git/trees">>    \* api_url of _maybe_fetch_github_tree

\* pages a crawl can be given: each links to at most MaxLinks URLs
LinkLists == UNION {[1..n -> PageUrls] : n \in 0..MaxLinks}

ATTACHMENT_EXTS ==
    {".csv", ".pdf", ".zip", ".opus", ".ogg", ".wav", ".mp3", ".png", ".jpg",
     ".jpeg", ".gif"}

ATTACHMENT_CONTENT_TYPES ==
    {"text/csv", "application/csv", "application/vnd.ms-excel", "application/pdf",
     "application/zip", "audio/ogg", "audio/opus", "audio/wav", "audio/mpeg",
     "image/png", "image/jpeg", "image/jpg", "image/gif"}

\* ("/audio", "/image", ".csv", ".pdf", ".zip")
AttachmentMarkers == {"/audio", "/image", ".csv", ".pdf", ".zip"}

\* str.lower() on the pieces used here
Lower(t) ==
    CASE t = ".CSV" -> ".csv"
      [] t = ".PNG" -> ".png"
      [] OTHER -> t

\* any(lower.endswith(ext) for ext in _ATTACHMENT_EXTS)
EndsWithAttachmentExt(u) == Len(u) > 0 /\ Lower(u[Len(u)]) \in ATTACHMENT_EXTS

\* any(ct in lower for ct in ("/audio", "/image", ".csv", ".pdf", ".zip"))
ContainsAttachmentMarker(u) == \E i \in 1..Len(u) : Lower(u[i]) \in AttachmentMarkers

Range(s) == {s[i] : i \in DOMAIN s}

\* a document as BeautifulSoup sees it: content is "" (nothing), "html" or
\* "tree_config" (a JSON object holding owner, repo and sha); short is
\* "len(html_text.strip()) < 200 or script with innerHTML"
EmptyDoc == [content |-> "", short |-> TRUE, hrefs |-> <<>>]

HtmlDoc(h, sh) == [content |-> "html", short |-> sh, hrefs |-> h]

TreeConfigDoc == [content |-> "tree_config", short |-> TRUE, hrefs |-> <<>>]

NoResponse == [status |-> "none"]

NoPage == [url |-> NoPageUrl]
NoCall == [u |-> NoPageUrl, depth |-> 0]
NoStats == [md_count |-> -1]
NoQuizFacts == [github_tree_stats |-> NoStats]

CrawlOff ==
    /\ crawl_pc = "off"
    /\ max_depth = 0
    /\ seen = {}
    /\ pages = <<>>
    /\ crawl_call = NoCall
    /\ stack = <<>>
    /\ quiz_facts = NoQuizFacts
    /\ fetch_log = <<>>
    /\ tree_gets = 0

PageOff ==
    /\ response = NoResponse
    /\ page = NoPage

\* ------------------------------------------------ values of the executor
NoChild == [launch |-> "none"]

NoResult == [status |-> "none"]

ExecOff ==
    /\ exec_pc = "off"
    /\ child = NoChild
    /\ result = NoResult
    /\ launches = 0
    /\ temp_dirs = 0

\* ------------------------------------- values of the generation in detail
\* the run_worker jobs the process runs at one time
Jobs == {"job1", "job2"}

StoreOff ==
    /\ gets = {}
    /\ disk = <<>>
    /\ attached = {}

EndpointOff ==
    /\ replies = <<>>
    /\ tasks = <<>>

\* no job is inside record_failed_submission and the file is empty
LogOff ==
    /\ file = <<>>
    /\ writer = [j \in Jobs |-> [calls |-> 0, left |-> 0, of |-> 0]]

\* "contents" as the pieces it is made of, each <<what it is, its length>>
NoContents == <<<<"none", 0>>>>

ContentsOff ==
    /\ raw_page = [text |-> 0, inline_js |-> 0, transcripts |-> <<>>]
    /\ contents = NoContents

UrlOff ==
    /\ url_pc = "off"
    /\ given_url = <<>>
    /\ url_text = <<>>
    /\ url_log = <<>>

RestOff == StoreOff /\ EndpointOff /\ LogOff /\ ContentsOff /\ UrlOff

MAX_API_ATTEMPTS == 3         \* phase2_llm: range(1, 4)

DetailOff ==
    /\ llm_try = 1
    /\ gen_requests = 0
    /\ llm_calls = <<>>
    /\ runs = <<>>
    /\ recent = NoErr
    /\ visit_requests = 0

\* run_worker(initial_url) has been called
StartOfJob ==
    /\ pc = "scrape"
    /\ current_url = SeedUrl
    /\ facts = NoFacts
    /\ answer = NoAnswer
    /\ last_error = NoErr
    /\ eval_attempt = 0
    /\ resp_shape = "empty"
    /\ correct = FALSE
    /\ next_url = NoUrl
    /\ reason = NoErr
    /\ site = "first"
    /\ g_url = NoUrl
    /\ g_last_error = NoErr
    /\ attempt = 1
    /\ llm_raw = NoProg
    /\ script_attempt = 1
    /\ exec_err = NoErr
    /\ payload = NoPayload
    /\ log = <<>>
    /\ visits = 0
    /\ subs = 0
    /\ total_subs = 0
    /\ wrongs = 0
    /\ write_fails = 0

Init == StartOfJob /\ CrawlOff /\ PageOff /\ ExecOff /\ DetailOff /\ RestOff

\* ------------------------------------------------- generate_and_execute
\* The locals of generate_and_execute hold a value while it can still be
\* read: last_error and attempt in the generation loop (main.py:152-187),
\* llm_raw and script_attempt in the execution loop (main.py:193-225),
\* exec_err from a failed run to the regeneration that follows it.

\* variant: the verdict's reason is not handed on as prior_error
Call_DropsPriorError(s, prior_error) ==
    /\ pc' = "gen"
    /\ site' = s
    /\ g_url' = current_url
    /\ g_last_error' = NoErr
    /\ attempt' = 1
    /\ llm_raw' = NoProg
    /\ script_attempt' = 1
    /\ exec_err' = NoErr

\* entry of generate_and_execute(facts, current_url, prior_error, 1):
\* last_error = prior_error, llm_raw = None, the loop starts at attempt 1
Call(s, prior_error) ==
    /\ pc' = "gen"
    /\ site' = s
    /\ g_url' = current_url
    /\ g_last_error' = prior_error
    /\ attempt' = 1
    /\ llm_raw' = NoProg
    /\ script_attempt' = 1
    /\ exec_err' = NoErr

\* variant: eval_attempt is initialised once per job, not once per URL
Return_KeepsEvalAttempt(a, e) ==
    /\ pc' = "submit"
    /\ answer' = a
    /\ last_error' = e
    /\ UNCHANGED eval_attempt
    /\ UNCHANGED <<current_url, facts, resp_shape, correct, next_url, reason>>
    /\ UNCHANGED site
    /\ g_url' = NoUrl
    /\ g_last_error' = NoErr
    /\ attempt' = 1
    /\ llm_raw' = NoProg
    /\ script_attempt' = 1
    /\ exec_err' = NoErr

\* "answer, last_error = generate_and_execute(...)" and the statements up to
\* the next submit: after the first call of a URL, eval_attempt = 0.
\* The locals of generate_and_execute end with the call.
Return(a, e) ==
    /\ pc' = "submit"
    /\ answer' = a
    /\ last_error' = e
    /\ eval_attempt' = IF site = "first" THEN 0 ELSE eval_attempt
    /\ UNCHANGED <<current_url, facts, resp_shape, correct, next_url, reason>>
    /\ UNCHANGED site
    /\ g_url' = NoUrl
    /\ g_last_error' = NoErr
    /\ attempt' = 1
    /\ llm_raw' = NoProg
    /\ script_attempt' = 1
    /\ exec_err' = NoErr

\* one iteration of "for attempt in range(prompt_attempt_start, 4)":
\* the prompt carries previous_error = last_error and attempt_number = attempt
GenAttempt ==
    /\ pc = "gen"
    /\ attempt <= MAX_PROMPT_ATTEMPTS
    /\ \/ \E out \in LlmOutputs :          \* phase2_llm returned: break
            /\ llm_raw' = out
            /\ pc' = "exec"
            /\ g_last_error' = NoErr
            /\ attempt' = 1
            /\ UNCHANGED <<wvars, site, g_url, script_attempt, exec_err>>
       \/ /\ attempt < MAX_PROMPT_ATTEMPTS  \* phase2_llm raised: next attempt
          /\ g_last_error' = "llm_failed"
          /\ attempt' = attempt + 1
          /\ UNCHANGED <<pc, wvars, site, g_url, llm_raw, script_attempt, exec_err>>
       \/ /\ attempt = MAX_PROMPT_ATTEMPTS  \* phase2_llm raised: llm_raw is None
          /\ Return(NoAnswer, "llm_failed")
    /\ UNCHANGED <<evars, hvars>>
    /\ UNCHANGED ovars

\* variant: extract_llm_code accepts every text
BuildError_Never(raw) == NoErr

\* extract_llm_code, as build_script calls it
BuildError(raw) ==
    CASE raw = "no_final_answer" -> "LLM did not assign final_answer."
      [] raw = "fenced" -> "LLM output contains markdown fences."
      [] OTHER -> NoErr

\* result.get("error") of a run that did not return status ok
ExecError(outcome) ==
    CASE outcome = "timeout" -> "timeout 25s"
      [] outcome = "nonzero" -> "stderr"
      [] outcome = "not_json" -> "stdout_not_json"
      [] OTHER -> NoErr

\* one iteration of "for script_attempt in range(1, MAX_SCRIPT_RETRIES + 1)"
\* up to the regeneration request
ExecAttempt ==
    /\ pc = "exec"
    /\ script_attempt <= MAX_SCRIPT_RETRIES
    /\ IF BuildError(llm_raw) # NoErr
       THEN \* build_script raised: except Exception -> return None, str(e)
            Return(NoAnswer, BuildError(llm_raw))
       ELSE \E outcome \in ExecOutcomes :
            CASE outcome = "ok" ->
                   \E a \in Answers : Return(a, NoErr)
              [] outcome = "ok_without_answer" ->
                   \* result["json"]["answer"] raised
                   Return(NoAnswer, "KeyError")
              [] OTHER ->
                   IF script_attempt < MAX_SCRIPT_RETRIES
                   THEN /\ exec_err' = ExecError(outcome)
                        /\ pc' = "regen"
                        /\ UNCHANGED <<wvars, site, g_url, g_last_error, attempt,
                                       llm_raw, script_attempt>>
                   ELSE Return(NoAnswer, ExecError(outcome))
    /\ UNCHANGED <<evars, hvars>>
    /\ UNCHANGED ovars

\* the regeneration request after a failed execution (its prompt carries
\* previous_error = exec_err and attempt_number = script_attempt + 1), and
\* the loop increment
Regenerate ==
    /\ pc = "regen"
    /\ \/ \E out \in LlmOutputs :
            /\ llm_raw' = out
            /\ script_attempt' = script_attempt + 1
            /\ exec_err' = NoErr
            /\ pc' = "exec"
            /\ UNCHANGED <<wvars, site, g_url, g_last_error, attempt>>
       \/ Return(NoAnswer, exec_err)       \* phase2_llm raised
    /\ UNCHANGED <<evars, hvars>>
    /\ UNCHANGED ovars

\* ------------------------------------------------------------ run_worker
\* variant: a failed scrape is followed by generation on the old facts
Scrape_ContinuesOnFailure ==
    /\ pc = "scrape"
    /\ \/ /\ UNCHANGED <<wvars, hvars>>
          /\ Call("first", NoErr)
       \/ /\ facts' = current_url
          /\ visits' = visits + 1
          /\ subs' = 0
          /\ UNCHANGED <<current_url, answer, last_error, eval_attempt,
                         resp_shape, correct, next_url, reason>>
          /\ Call("first", NoErr)
          /\ UNCHANGED <<total_subs, wrongs, write_fails>>
    /\ UNCHANGED evars
    /\ UNCHANGED ovars

\* variant: the facts of the first URL are kept for the later ones
Scrape_KeepsFacts ==
    /\ pc = "scrape"
    /\ \/ /\ pc' = "done"
          /\ UNCHANGED <<wvars, gvars, hvars>>
       \/ /\ facts' = IF facts = NoFacts THEN current_url ELSE facts
          /\ visits' = visits + 1
          /\ subs' = 0
          /\ UNCHANGED <<current_url, answer, last_error, eval_attempt,
                         resp_shape, correct, next_url, reason>>
          /\ Call("first", NoErr)
          /\ UNCHANGED <<total_subs, wrongs, write_fails>>
    /\ UNCHANGED evars
    /\ UNCHANGED ovars

\* PHASE 1 and the first call of generate_and_execute
Scrape ==
    /\ pc = "scrape"
    /\ \/ /\ pc' = "done"                  \* except Exception: return
          /\ UNCHANGED <<wvars, gvars, hvars>>
       \/ /\ facts' = current_url
          /\ visits' = visits + 1
          /\ subs' = 0
          /\ UNCHANGED <<current_url, answer, last_error, eval_attempt,
                         resp_shape, correct, next_url, reason>>
          /\ Call("first", NoErr)
          /\ UNCHANGED <<total_subs, wrongs, write_fails>>
    /\ UNCHANGED evars
    /\ UNCHANGED ovars

\* variant: only the 'correct' key is required
WellFormed_UrlOptional(shape) == shape \in {"ok", "no_url"}

\* "not resp or 'correct' not in resp or 'url' not in resp" is false
WellFormed(shape) == shape = "ok"

\* resp.get("url"): a URL, or None or ""
NextUrls == Urls \cup {NoUrl}

\* requests.post raised, or resp.json() raised
PostFailures == {"unreachable", "bad_json"}

\* variant: the dictionary returned for a failure has no "url" key
SubmitFailed_NoUrlKey(got) ==
    [shape |-> "no_url", correct |-> FALSE, url |-> NoUrl,
     reason |-> IF got = "bad_json" THEN "bad json" ELSE NoErr]

\* what submit_to_evaluator returns when the POST or resp.json() raises:
\* {"correct": False, "url": None}, with "reason": "bad json" for the latter
SubmitFailed(got) ==
    [shape |-> "ok", correct |-> FALSE, url |-> NoUrl,
     reason |-> IF got = "bad_json" THEN "bad json" ELSE NoErr]

\* eval_attempt += 1; resp = submit_to_evaluator(...); the validity check.
\* run_worker writes last_error at each call of generate_and_execute and
\* never reads it: the value returned is kept up to the submission.
Submit ==
    /\ pc = "submit"
    /\ total_subs < MaxSubs
    /\ total_subs' = total_subs + 1
    /\ eval_attempt' = eval_attempt + 1
    /\ subs' = subs + 1
    /\ payload' = [url |-> current_url, answer |-> answer]
    /\ \E shape \in RespShapes :
          /\ resp_shape' = shape
          /\ IF WellFormed(shape)
             THEN \E c \in BOOLEAN, u \in NextUrls, r \in Reasons :
                  /\ correct' = c
                  /\ next_url' = u
                  /\ reason' = r
                  /\ pc' = IF c THEN "decide" ELSE "record"
                  /\ wrongs' = IF c THEN wrongs ELSE wrongs + 1
             ELSE /\ pc' = "done"
                  /\ UNCHANGED <<correct, next_url, reason, wrongs>>
    /\ last_error' = NoErr
    /\ UNCHANGED <<current_url, facts, answer>>
    /\ UNCHANGED <<gvars, log, visits, write_fails>>
    /\ UNCHANGED ovars

\* The same step when the POST or resp.json() raises: submit_to_evaluator
\* returns SubmitFailed(got) and run_worker applies the validity check to it.
SubmitFails ==
    /\ pc = "submit"
    /\ total_subs < MaxSubs
    /\ total_subs' = total_subs + 1
    /\ eval_attempt' = eval_attempt + 1
    /\ subs' = subs + 1
    /\ payload' = [url |-> current_url, answer |-> answer]
    /\ \E got \in PostFailures :
          LET resp == SubmitFailed(got) IN
          /\ resp_shape' = resp.shape
          /\ IF WellFormed(resp.shape)
             THEN /\ correct' = resp.correct
                  /\ next_url' = resp.url
                  /\ reason' = resp.reason
                  /\ pc' = IF resp.correct THEN "decide" ELSE "record"
                  /\ wrongs' = IF resp.correct THEN wrongs ELSE wrongs + 1
             ELSE /\ pc' = "done"
                  /\ UNCHANGED <<correct, next_url, reason, wrongs>>
    /\ last_error' = NoErr
    /\ UNCHANGED <<current_url, facts, answer>>
    /\ UNCHANGED <<gvars, log, visits, write_fails>>
    /\ UNCHANGED ovars

\* variant: the attempt number is taken before the increment
Record_StaleAttempt ==
    /\ pc = "record"
    /\ \/ /\ log' = Append(log, [url |-> current_url, answer |-> answer,
                                 reason |-> reason,
                                 attempt_number |-> eval_attempt - 1])
          /\ UNCHANGED write_fails
       \/ /\ UNCHANGED log
          /\ write_fails' = write_fails + 1
    /\ pc' = "decide"
    /\ UNCHANGED <<wvars, gvars, payload, visits, subs, total_subs, wrongs>>
    /\ UNCHANGED ovars

\* record_failed_submission(current_url, answer, reason, eval_attempt)
Record ==
    /\ pc = "record"
    /\ \/ /\ log' = Append(log, [url |-> current_url, answer |-> answer,
                                 reason |-> reason, attempt_number |-> eval_attempt])
          /\ UNCHANGED write_fails
       \/ /\ UNCHANGED log                 \* except Exception: logger.error
          /\ write_fails' = write_fails + 1
    /\ pc' = "decide"
    /\ UNCHANGED <<wvars, gvars, payload, visits, subs, total_subs, wrongs>>
    /\ UNCHANGED ovars

\* variants: one retry more, one retry less
RetryAllowed_OneMore(n) == n <= MAX_EVAL_RETRIES + 1

RetryAllowed_OneLess(n) == n < MAX_EVAL_RETRIES

\* "eval_attempt <= MAX_EVAL_RETRIES"
RetryAllowed(n) == n <= MAX_EVAL_RETRIES

\* variant: a correct answer without next URL is retried
CaseA_Retries ==
    /\ pc = "decide"
    /\ next_url = NoUrl /\ correct
    /\ Call("retry", reason)
    /\ UNCHANGED <<wvars, evars, hvars>>
    /\ UNCHANGED ovars

\* Case A: correct and no next URL
CaseA ==
    /\ pc = "decide"
    /\ next_url = NoUrl /\ correct
    /\ pc' = "done"
    /\ UNCHANGED <<wvars, gvars, evars, hvars>>
    /\ UNCHANGED ovars

\* variant: the exhausted branch regenerates once more
CaseB_NeverStops ==
    /\ pc = "decide"
    /\ next_url = NoUrl /\ ~correct
    /\ Call("retry", reason)
    /\ UNCHANGED <<wvars, evars, hvars>>
    /\ UNCHANGED ovars

\* Case B: incorrect and no next URL
CaseB ==
    /\ pc = "decide"
    /\ next_url = NoUrl /\ ~correct
    /\ IF RetryAllowed(eval_attempt)
       THEN /\ Call("retry", reason)
            /\ UNCHANGED wvars
       ELSE /\ pc' = "done"
            /\ UNCHANGED <<wvars, gvars>>
    /\ UNCHANGED <<evars, hvars>>
    /\ UNCHANGED ovars

\* variant: the exhausted branch stops instead of moving on
CaseC_StopsWhenExhausted ==
    /\ pc = "decide"
    /\ next_url # NoUrl /\ ~correct
    /\ IF RetryAllowed(eval_attempt)
       THEN /\ Call("retry", reason)
            /\ UNCHANGED wvars
       ELSE /\ pc' = "done"
            /\ UNCHANGED <<wvars, gvars>>
    /\ UNCHANGED <<evars, hvars>>
    /\ UNCHANGED ovars

\* Case C: incorrect and a next URL
CaseC ==
    /\ pc = "decide"
    /\ next_url # NoUrl /\ ~correct
    /\ IF RetryAllowed(eval_attempt)
       THEN /\ Call("retry", reason)
            /\ UNCHANGED wvars
       ELSE /\ current_url' = next_url
            /\ pc' = "scrape"
            /\ UNCHANGED <<facts, answer, last_error, eval_attempt,
                           resp_shape, correct, next_url, reason>>
            /\ UNCHANGED gvars
    /\ UNCHANGED <<evars, hvars>>
    /\ UNCHANGED ovars

\* Case D: correct and a next URL
CaseD ==
    /\ pc = "decide"
    /\ next_url # NoUrl /\ correct
    /\ current_url' = next_url
    /\ pc' = "scrape"
    /\ UNCHANGED <<facts, answer, last_error, eval_attempt,
                   resp_shape, correct, next_url, reason>>
    /\ UNCHANGED <<gvars, evars, hvars>>
    /\ UNCHANGED ovars

Next ==
    \/ Scrape
    \/ GenAttempt
    \/ ExecAttempt
    \/ Regenerate
    \/ Submit
    \/ Record
    \/ CaseA
    \/ CaseB
    \/ CaseC
    \/ CaseD

Spec == Init /\ [][Next]_vars

\* run_worker while the evaluator cannot be reached or answers without JSON:
\* every submission fails, so no verdict is correct and none names a URL
NextOutage ==
    \/ Scrape
    \/ GenAttempt
    \/ ExecAttempt
    \/ Regenerate
    \/ SubmitFails
    \/ Record
    \/ CaseB

SpecOutage == Init /\ [][NextOutage]_vars

TypeOK ==
    /\ pc \in {"scrape", "gen", "exec", "regen", "submit", "record", "decide", "done"}
    /\ current_url \in Urls
    /\ facts \in Urls \cup {NoFacts}
    /\ answer \in Answers
    /\ eval_attempt \in 0..(MAX_EVAL_RETRIES + 1)
    /\ resp_shape \in RespShapes
    /\ correct \in BOOLEAN
    /\ next_url \in Urls \cup {NoUrl}
    /\ reason \in Reasons \cup {"bad json"}
    /\ site \in {"first", "retry"}
    /\ attempt \in 1..MAX_PROMPT_ATTEMPTS
    /\ llm_raw \in LlmOutputs \cup {NoProg}
    /\ script_attempt \in 1..MAX_SCRIPT_RETRIES
    /\ visits \in 0..(MaxSubs + 1)
    /\ total_subs \in 0..MaxSubs

\* ---------------------------------------------------- extract_single_page
\* the responses a crawl is given: a page of links, a fetch that fails with
\* the rendering failing too, a file, a tree configuration
StaticPage(h) ==
    [status |-> "200", ctype |-> "text/html", body |-> HtmlDoc(h, FALSE),
     rendered |-> EmptyDoc, saved |-> {}]

FailedFetch(st) ==
    [status |-> st, ctype |-> "", body |-> EmptyDoc, rendered |-> EmptyDoc,
     saved |-> {}]

AttachmentFile(u) ==
    [status |-> "200", ctype |-> "text/csv", body |-> EmptyDoc,
     rendered |-> EmptyDoc, saved |-> {u}]

TreeConfig ==
    [status |-> "200", ctype |-> "application/json", body |-> TreeConfigDoc,
     rendered |-> EmptyDoc, saved |-> {}]

CrawlResponses(u) ==
    {StaticPage(h) : h \in LinkLists}
        \cup {FailedFetch("404"), FailedFetch("error"), AttachmentFile(u), TreeConfig}

\* neither the static fetch nor the rendering gave a document
FetchFailed(r) == r.status # "200" /\ r.rendered.content = ""

\* extract_single_page(url) when the network answers r; r.saved holds the
\* URLs for which _download_attachment returns metadata.  attachments is
\* the set of the source_url of the page's attachments.
ExtractSinglePage(u, r) ==
    IF r.status = "200" /\ r.ctype \in ATTACHMENT_CONTENT_TYPES
    THEN [url |-> u, html |-> "", text |-> "", links |-> <<>>,
          attachments |-> {u} \cap r.saved]
    ELSE LET static == IF r.status = "200" THEN r.body ELSE EmptyDoc
             needs_js == static.content = "" \/ static.short
             doc == IF needs_js /\ r.rendered.content # "" THEN r.rendered ELSE static
             links == SelectSeq(doc.hrefs, LAMBDA h : ~EndsWithAttachmentExt(h))
             media_sources ==
                 {h \in Range(doc.hrefs) :
                     EndsWithAttachmentExt(h) \/ ContainsAttachmentMarker(h)}
         IN  [url |-> u, html |-> doc.content, text |-> doc.content,
              links |-> links, attachments |-> media_sources \cap r.saved]

\* ------------------------------------------------ _maybe_fetch_github_tree
\* what the tree API answers: an error, or a listing whose items are told
\* apart by the two filters
TreeItems == [under_prefix : BOOLEAN, has_extension : BOOLEAN]

TreeResponses == [ok : BOOLEAN, tree : SUBSET TreeItems]

\* p.get(key) or ""
GetOrEmpty(p, key) == IF key \in DOMAIN p THEN p[key] ELSE ""

\* json.loads(page_text) succeeds and owner, repo and sha are present
IsTreeConfig(page_text) == page_text = "tree_config"

GithubTreeStats(tree) ==
    [md_count |-> Cardinality({i \in tree : i.under_prefix /\ i.has_extension})]

MaybeFetchGithubTree(page_text, collected_pages, t) ==
    IF ~IsTreeConfig(page_text) \/ ~t.ok
    THEN collected_pages
    ELSE Append(collected_pages,
                [url |-> ApiUrl, contents |-> "tree", attachments |-> {},
                 github_tree_stats |-> GithubTreeStats(t.tree)])

\* ------------------------------------------------ identify_quiz_components
StatsPages(raw_pages) ==
    {i \in DOMAIN raw_pages : "github_tree_stats" \in DOMAIN raw_pages[i]}

IdentifyQuizComponents(raw_pages) ==
    [github_tree_stats |->
        IF StatsPages(raw_pages) = {}
        THEN NoStats
        ELSE LET first == CHOOSE i \in StatsPages(raw_pages) :
                              \A j \in StatsPages(raw_pages) : i <= j
             IN  raw_pages[first].github_tree_stats,
     pages |-> [i \in DOMAIN raw_pages |-> raw_pages[i].url]]

\* ----------------------------------------------- extract_webpage_recursive
\* variant: the visited set is never consulted
AlreadySeen_Never(u) == FALSE

\* "if u in seen"
AlreadySeen(u) == u \in seen

\* variant: one level deeper
DepthReached_OneDeeper(depth) == depth > max_depth

\* "if depth >= max_depth"
DepthReached(depth) == depth >= max_depth

CrawlStart ==
    /\ crawl_pc = "crawl"
    /\ max_depth \in 0..MaxDepth
    /\ seen = {}
    /\ pages = <<>>
    /\ crawl_call = [u |-> SeedPage, depth |-> 0]
    /\ stack = <<>>
    /\ quiz_facts = NoQuizFacts
    /\ fetch_log = <<>>
    /\ tree_gets = 0

CrawlInit == StartOfJob /\ CrawlStart /\ PageOff /\ ExecOff /\ DetailOff /\ RestOff

\* _crawl(u, depth) for a URL already in seen: return
CrawlSeen ==
    /\ crawl_pc = "crawl"
    /\ crawl_call # NoCall
    /\ AlreadySeen(crawl_call.u)
    /\ crawl_call' = NoCall
    /\ UNCHANGED <<crawl_pc, max_depth, seen, pages, stack, quiz_facts,
                   fetch_log, tree_gets>>
    /\ UNCHANGED not_cvars

\* _crawl(u, depth) for a new URL, up to the loop over the page's links,
\* when the network answers with one of responses
CrawlFetchOf(responses) ==
    /\ crawl_pc = "crawl"
    /\ crawl_call # NoCall
    /\ ~AlreadySeen(crawl_call.u)
    /\ seen' = seen \cup {crawl_call.u}
    /\ \E r \in responses :
          LET p == ExtractSinglePage(crawl_call.u, r)
              page_text == GetOrEmpty(p, "contents")
          IN  /\ IF IsTreeConfig(page_text)
                 THEN /\ tree_gets' = tree_gets + 1
                      /\ \E t \in TreeResponses :
                            pages' = MaybeFetchGithubTree(page_text, Append(pages, p), t)
                 ELSE /\ UNCHANGED tree_gets
                      /\ pages' = Append(pages, p)
              /\ fetch_log' = Append(fetch_log,
                                     [u |-> crawl_call.u, depth |-> crawl_call.depth,
                                      failed |-> FetchFailed(r)])
              /\ stack' = IF DepthReached(crawl_call.depth)
                          THEN stack
                          ELSE Append(stack, [depth |-> crawl_call.depth,
                                              links |-> p.links])
    /\ crawl_call' = NoCall
    /\ UNCHANGED <<crawl_pc, max_depth, quiz_facts>>
    /\ UNCHANGED not_cvars

CrawlFetch == CrawlFetchOf(CrawlResponses(crawl_call.u))

\* "for link in p['links']: _crawl(link, depth + 1)", one iteration
CrawlNextLink ==
    /\ crawl_pc = "crawl"
    /\ crawl_call = NoCall
    /\ stack # <<>>
    /\ LET top == stack[Len(stack)]
       IN  /\ top.links # <<>>
           /\ crawl_call' = [u |-> Head(top.links), depth |-> top.depth + 1]
           /\ stack' = [stack EXCEPT ![Len(stack)].links = Tail(top.links)]
    /\ UNCHANGED <<crawl_pc, max_depth, seen, pages, quiz_facts, fetch_log, tree_gets>>
    /\ UNCHANGED not_cvars

\* the loop over the links is over: _crawl returns
CrawlLoopEnd ==
    /\ crawl_pc = "crawl"
    /\ crawl_call = NoCall
    /\ stack # <<>>
    /\ stack[Len(stack)].links = <<>>
    /\ stack' = SubSeq(stack, 1, Len(stack) - 1)
    /\ UNCHANGED <<crawl_pc, max_depth, seen, pages, crawl_call, quiz_facts,
                   fetch_log, tree_gets>>
    /\ UNCHANGED not_cvars

\* return {"pages": pages}; facts = identify_quiz_components(scraped["pages"])
Identify ==
    /\ crawl_pc = "crawl"
    /\ crawl_call = NoCall
    /\ stack = <<>>
    /\ quiz_facts' = IdentifyQuizComponents(pages)
    /\ crawl_pc' = "done"
    /\ UNCHANGED <<max_depth, seen, pages, crawl_call, stack, fetch_log, tree_gets>>
    /\ UNCHANGED not_cvars

CrawlNext ==
    \/ CrawlSeen
    \/ CrawlFetch
    \/ CrawlNextLink
    \/ CrawlLoopEnd
    \/ Identify

SpecCrawl == CrawlInit /\ [][CrawlNext]_vars

\* The same crawl on a site of four pages of links: there a page can be
\* reached along a branch longer than its distance from the seed and still
\* link to a page that no other page links to.
SiteUrls == PageUrls \cup {<<"/d">>}

\* each page links to at most MaxLinks of them, or is missing
SiteResponses ==
    {StaticPage(h) : h \in UNION {[1..n -> SiteUrls] : n \in 0..MaxLinks}}
        \cup {FailedFetch("404")}

SiteFetch == CrawlFetchOf(SiteResponses)

SiteNext ==
    \/ CrawlSeen
    \/ SiteFetch
    \/ CrawlNextLink
    \/ CrawlLoopEnd
    \/ Identify

SpecSite == CrawlInit /\ [][SiteNext]_vars

\* --------------------------------------- extract_single_page on its own
\* the URLs an <a href> of the page can hold: a page, files named by their
\* extension, a file with a query string, a path under /image, an image
Hrefs ==
    {<<"/b">>, <<"/b", ".csv">>, <<"/b", ".CSV">>, <<"/b", ".csv", "?v=1">>,
     <<"/image", "/b">>, <<"/b", ".png">>, <<"/b", ".png", "?v=1">>}

HrefLists == UNION {[1..n -> Hrefs] : n \in 0..MaxLinks}

\* what the network can answer for one page: the static fetch and the
\* rendering see the same anchors
PageResponses ==
    UNION {
        [status : {"200", "404", "error"},
         ctype : {"text/html", "text/csv"},
         body : {EmptyDoc, HtmlDoc(h, TRUE), HtmlDoc(h, FALSE)},
         rendered : {EmptyDoc, HtmlDoc(h, FALSE)},
         saved : SUBSET (Range(h) \cup {SeedPage})] : h \in HrefLists }

PageInit ==
    /\ StartOfJob /\ CrawlOff /\ ExecOff /\ DetailOff /\ RestOff
    /\ response \in PageResponses
    /\ page = NoPage

\* p = extract_single_page(u)
ExtractPage ==
    /\ response # NoResponse
    /\ page = NoPage
    /\ page' = ExtractSinglePage(SeedPage, response)
    /\ UNCHANGED response
    /\ UNCHANGED not_pvars

PageNext ==
    \/ ExtractPage

SpecPage == PageInit /\ [][PageNext]_vars

\* -------------------------------------------------- execute_phase2_script
\* the lines a child prints: a blank line, a diagnostic, a JSON object on
\* one line (two of them), and the two halves of a JSON object
Lines ==
    {"", "debug", "{\"answer\": 42}", "{\"answer\": 7}", "{", "\"answer\": 42}"}

Stdouts == UNION {[1..n -> Lines] : n \in 0..MaxLines}

\* what subprocess.run can do: raise OSError at the launch, raise
\* TimeoutExpired, or return a CompletedProcess
Children ==
    {[launch |-> "oserror", ends |-> "none", returncode |-> 0, stdout |-> <<>>,
      stderr |-> ""]}
    \cup [launch : {"ok"}, ends : {"timeout"}, returncode : {0}, stdout : Stdouts,
          stderr : {""}]
    \cup [launch : {"ok"}, ends : {"exit"}, returncode : {0, 1}, stdout : Stdouts,
          stderr : {"", "Traceback"}]

\* str.strip() of the text whose lines are s
RECURSIVE StripLeft(_)
StripLeft(s) == IF s # <<>> /\ Head(s) = "" THEN StripLeft(Tail(s)) ELSE s

RECURSIVE StripRight(_)
StripRight(s) ==
    IF s # <<>> /\ s[Len(s)] = "" THEN StripRight(SubSeq(s, 1, Len(s) - 1)) ELSE s

Strip(s) == StripRight(StripLeft(s))

NoJson == [answer |-> -1]

\* json.loads of the text whose lines are s: white space between the
\* tokens of one document is skipped, anything else around it is an error
JsonLoads(s) ==
    LET t == SelectSeq(s, LAMBDA l : l # "")
    IN  CASE t = << "{\"answer\": 42}" >> -> [ok |-> TRUE, value |-> [answer |-> 42]]
          [] t = << "{\"answer\": 7}" >> -> [ok |-> TRUE, value |-> [answer |-> 7]]
          [] t = << "{", "\"answer\": 42}" >> -> [ok |-> TRUE, value |-> [answer |-> 42]]
          [] OTHER -> [ok |-> FALSE, value |-> NoJson]

\* variant: the output is parsed before the exit status is looked at
Completed_ParsesFirst(c) ==
    LET stdout == Strip(c.stdout)
        stderr == c.stderr
    IN  IF JsonLoads(stdout).ok
        THEN [status |-> "ok", raw_stdout |-> stdout, json |-> JsonLoads(stdout).value]
        ELSE IF c.returncode # 0
        THEN [status |-> "error", error |-> stderr, raw_stdout |-> stdout]
        ELSE [status |-> "error", error |-> "stdout_not_json", raw_stdout |-> stdout,
              stderr |-> stderr]

\* the statements after subprocess.run has returned
Completed(c) ==
    LET stdout == Strip(c.stdout)
        stderr == c.stderr
    IN  IF c.returncode # 0
        THEN [status |-> "error", error |-> stderr, raw_stdout |-> stdout]
        ELSE IF JsonLoads(stdout).ok
        THEN [status |-> "ok", raw_stdout |-> stdout, json |-> JsonLoads(stdout).value]
        ELSE [status |-> "error", error |-> "stdout_not_json", raw_stdout |-> stdout,
              stderr |-> stderr]

ExecInit ==
    /\ StartOfJob /\ CrawlOff /\ PageOff /\ DetailOff /\ RestOff
    /\ exec_pc = "mkdir"
    /\ child \in Children
    /\ result = NoResult
    /\ launches = 0
    /\ temp_dirs = 0

\* temp_dir.mkdir(...); script_path.write_text(code)
MakeTempDir ==
    /\ exec_pc = "mkdir"
    /\ temp_dirs' = temp_dirs + 1
    /\ exec_pc' = "run"
    /\ UNCHANGED <<child, result, launches>>
    /\ UNCHANGED not_xvars

\* subprocess.run(...) and the rest of the function
RunChild ==
    /\ exec_pc = "run"
    /\ launches' = launches + 1
    /\ CASE child.launch # "ok" ->      \* no handler: the exception leaves
              /\ exec_pc' = "raised"
              /\ UNCHANGED result
         [] child.launch = "ok" /\ child.ends = "timeout" ->
              /\ exec_pc' = "returned"
              /\ result' = [status |-> "error", error |-> "timeout 25s"]
         [] OTHER ->
              /\ exec_pc' = "returned"
              /\ result' = Completed(child)
    /\ UNCHANGED <<child, temp_dirs>>
    /\ UNCHANGED not_xvars

ExecNext ==
    \/ MakeTempDir
    \/ RunChild

SpecExec == ExecInit /\ [][ExecNext]_vars

\* --------------------------- generate_and_execute and phase2_llm in detail
\* One call generate_and_execute(facts, current_url, prior_error, 1), with
\* every API request of phase2_llm a step.  llm_raw is a program: the number
\* of the phase2_llm call that returned it, and what extract_llm_code finds.

\* what one client.responses.create gives: an exception, a text without the
\* markers, a text with a BAD_PATTERN, or a text phase2_llm returns
ApiFailures == {"api_error", "no_markers", "bad_pattern"}

STUDENT_EMAIL == "25ds2000003@ds.study.iitm.ac.in"     \* config.py

\* the facts of identify_quiz_components, with the keys the generation loop
\* writes: "absent" is a key the dictionary does not hold
CanonicalFacts ==
    [of |-> SeedUrl, evaluator_feedback |-> "absent", student_email |-> "None"]

\* facts_for_llm once evaluator_feedback and student_email are written
FactsForLlm(f, err) ==
    [f EXCEPT !.evaluator_feedback = err, !.student_email = STUDENT_EMAIL]

\* variant: facts_for_llm is facts itself
FactsAfterInjection_Aliased(f, err) == FactsForLlm(f, err)

\* facts once facts_for_llm = copy.deepcopy(facts) has been written to
FactsAfterInjection(f, err) == f

\* facts, previous_error and attempt_number as _make_prompt receives them
MakePrompt(f, previous_error, attempt_number) ==
    [facts |-> f, previous_error |-> previous_error,
     attempt_number |-> attempt_number]

\* the text given to the generation loop's prompt: last_error itself
Feedback(err) == [prefix |-> "", text |-> err]

\* f"Runtime error in generated code:\n{exec_err}"
RuntimeErrorText(err) == [prefix |-> "Runtime error in generated code:", text |-> err]

\* variant: phase2_llm tries once more
LastApiAttempt_OneMore(n) == n = MAX_API_ATTEMPTS + 1

\* phase2_llm's loop is at its last iteration
LastApiAttempt(n) == n = MAX_API_ATTEMPTS

\* the call of phase2_llm that is running, started at its first request
CallStarted(phase, prompt) ==
    IF llm_try = 1
    THEN Append(llm_calls, [phase |-> phase, prompt |-> prompt, out |-> 0])
    ELSE llm_calls

\* phase2_llm returns a text: the program of this call
Returned(calls) == [calls EXCEPT ![Len(calls)].out = Len(calls)]

DetailInit ==
    /\ pc = "gen"
    /\ current_url = SeedUrl
    /\ facts = CanonicalFacts
    /\ answer = NoAnswer
    /\ last_error = NoErr
    /\ eval_attempt = 0
    /\ resp_shape = "empty"
    /\ correct = FALSE
    /\ next_url = NoUrl
    /\ reason = NoErr
    /\ site = "first"
    /\ g_url = SeedUrl
    /\ g_last_error = NoErr             \* prior_error=None
    /\ attempt = 1
    /\ llm_raw = [id |-> 0, kind |-> NoProg]
    /\ script_attempt = 1
    /\ exec_err = NoErr
    /\ payload = NoPayload
    /\ log = <<>>
    /\ visits = 1 /\ subs = 0 /\ total_subs = 0 /\ wrongs = 0 /\ write_fails = 0
    /\ DetailOff
    /\ CrawlOff /\ PageOff /\ ExecOff /\ RestOff

\* the runs of execute_phase2_script so far and this one: the program it ran,
\* what came back, result.get("error") and result["json"]["answer"]
Ran(outcome, a) ==
    Append(runs, [program |-> llm_raw.id, kind |-> llm_raw.kind,
                  outcome |-> outcome,
                  error |-> ExecError(outcome), answer |-> a])

\* "return answer, error" of generate_and_execute
DetailReturn(a, e) ==
    /\ pc' = "submit"
    /\ answer' = a
    /\ last_error' = e
    /\ UNCHANGED <<g_last_error, attempt, llm_raw, script_attempt, exec_err>>

\* one API request of the phase2_llm call of the generation loop; the first
\* request of a call follows the iteration's statements up to the call
GenRequest ==
    /\ pc = "gen"
    /\ attempt <= MAX_PROMPT_ATTEMPTS
    /\ gen_requests' = gen_requests + 1
    /\ visit_requests' = visit_requests + 1
    /\ facts' = FactsAfterInjection(facts, g_last_error)
    /\ LET calls == CallStarted("gen", MakePrompt(FactsForLlm(facts, g_last_error),
                                                  Feedback(g_last_error), attempt))
       IN  \/ \E out \in LlmOutputs :             \* return output; break
                /\ llm_calls' = Returned(calls)
                /\ llm_raw' = [id |-> Len(calls), kind |-> out]
                /\ llm_try' = 1
                /\ pc' = "exec"
                /\ UNCHANGED <<answer, last_error, g_last_error, attempt,
                               script_attempt, exec_err, recent>>
           \/ /\ \E f \in ApiFailures : ~LastApiAttempt(llm_try)   \* continue
              /\ llm_calls' = calls
              /\ llm_try' = llm_try + 1
              /\ UNCHANGED <<pc, answer, last_error, g_last_error, attempt, llm_raw,
                             script_attempt, exec_err, recent>>
           \/ /\ \E f \in ApiFailures : LastApiAttempt(llm_try)    \* raise
              /\ llm_calls' = calls
              /\ llm_try' = 1
              /\ recent' = "llm_failed"
              /\ IF attempt < MAX_PROMPT_ATTEMPTS
                 THEN /\ g_last_error' = "llm_failed"
                      /\ attempt' = attempt + 1
                      /\ UNCHANGED <<pc, answer, last_error, llm_raw,
                                     script_attempt, exec_err>>
                 ELSE /\ DetailReturn(NoAnswer, "llm_failed")
    /\ UNCHANGED runs
    /\ UNCHANGED <<current_url, eval_attempt, resp_shape, correct, next_url,
                   reason, site, g_url, evars, hvars>>
    /\ UNCHANGED not_jdvars

\* variant: when every run has failed, the error of the first run is returned
RunScript_ReturnsFirstError ==
    /\ pc = "exec"
    /\ script_attempt <= MAX_SCRIPT_RETRIES
    /\ IF BuildError(llm_raw.kind) # NoErr
       THEN /\ DetailReturn(NoAnswer, BuildError(llm_raw.kind))
            /\ recent' = BuildError(llm_raw.kind)
            /\ UNCHANGED runs
       ELSE \E outcome \in ExecOutcomes :
            /\ CASE outcome = "ok" ->
                      \E a \in Answers : /\ DetailReturn(a, NoErr)
                                        /\ runs' = Ran(outcome, a)
                                        /\ UNCHANGED recent
                 [] outcome = "ok_without_answer" ->
                      /\ DetailReturn(NoAnswer, "KeyError")
                      /\ runs' = Ran(outcome, NoAnswer)
                      /\ recent' = "KeyError"
                 [] OTHER ->
                      /\ runs' = Ran(outcome, NoAnswer)
                      /\ recent' = ExecError(outcome)
                      /\ IF script_attempt < MAX_SCRIPT_RETRIES
                         THEN /\ exec_err' = ExecError(outcome)
                              /\ pc' = "regen"
                              /\ UNCHANGED <<answer, last_error, g_last_error,
                                             attempt, llm_raw, script_attempt>>
                         ELSE DetailReturn(NoAnswer, runs'[1].error)
    /\ UNCHANGED <<llm_try, gen_requests, llm_calls, visit_requests>>
    /\ UNCHANGED <<current_url, facts, eval_attempt, resp_shape, correct, next_url,
                   reason, site, g_url, evars, hvars>>
    /\ UNCHANGED not_jdvars

\* one iteration of the execution loop up to the regeneration request
RunScript ==
    /\ pc = "exec"
    /\ script_attempt <= MAX_SCRIPT_RETRIES
    /\ IF BuildError(llm_raw.kind) # NoErr
       THEN \* build_script raised: except Exception -> return None, str(e)
            /\ DetailReturn(NoAnswer, BuildError(llm_raw.kind))
            /\ recent' = BuildError(llm_raw.kind)
            /\ UNCHANGED runs
       ELSE \E outcome \in ExecOutcomes :
            /\ CASE outcome = "ok" ->
                      \E a \in Answers : /\ DetailReturn(a, NoErr)
                                        /\ runs' = Ran(outcome, a)
                                        /\ UNCHANGED recent
                 [] outcome = "ok_without_answer" ->
                      /\ DetailReturn(NoAnswer, "KeyError")
                      /\ runs' = Ran(outcome, NoAnswer)
                      /\ recent' = "KeyError"
                 [] OTHER ->
                      /\ runs' = Ran(outcome, NoAnswer)
                      /\ recent' = ExecError(outcome)
                      /\ IF script_attempt < MAX_SCRIPT_RETRIES
                         THEN /\ exec_err' = ExecError(outcome)
                              /\ pc' = "regen"
                              /\ UNCHANGED <<answer, last_error, g_last_error,
                                             attempt, llm_raw, script_attempt>>
                         ELSE DetailReturn(NoAnswer, ExecError(outcome))
    /\ UNCHANGED <<llm_try, gen_requests, llm_calls, visit_requests>>
    /\ UNCHANGED <<current_url, facts, eval_attempt, resp_shape, correct, next_url,
                   reason, site, g_url, evars, hvars>>
    /\ UNCHANGED not_jdvars

\* variant: the text phase2_llm returns is dropped
RegenRequest_KeepsProgram ==
    /\ pc = "regen"
    /\ visit_requests' = visit_requests + 1
    \* facts_for_llm is the one of the generation loop's last iteration
    /\ LET calls == CallStarted("regen",
                        MakePrompt(FactsForLlm(facts, g_last_error),
                                   RuntimeErrorText(exec_err), script_attempt + 1))
       IN  \/ \E out \in LlmOutputs :
                /\ llm_calls' = Returned(calls)
                /\ UNCHANGED llm_raw
                /\ llm_try' = 1
                /\ script_attempt' = script_attempt + 1
                /\ pc' = "exec"
                /\ UNCHANGED <<answer, last_error, g_last_error, attempt, exec_err>>
           \/ /\ \E f \in ApiFailures : ~LastApiAttempt(llm_try)
              /\ llm_calls' = calls
              /\ llm_try' = llm_try + 1
              /\ UNCHANGED <<pc, answer, last_error, g_last_error, attempt, llm_raw,
                             script_attempt, exec_err>>
           \/ /\ \E f \in ApiFailures : LastApiAttempt(llm_try)
              /\ llm_calls' = calls
              /\ llm_try' = 1
              /\ DetailReturn(NoAnswer, exec_err)
    /\ UNCHANGED <<gen_requests, runs, recent>>
    /\ UNCHANGED <<current_url, facts, eval_attempt, resp_shape, correct, next_url,
                   reason, site, g_url, evars, hvars>>
    /\ UNCHANGED not_jdvars

\* one API request of the phase2_llm call that follows a failed run, and the
\* loop increment when it returns
RegenRequest ==
    /\ pc = "regen"
    /\ visit_requests' = visit_requests + 1
    \* facts_for_llm is the one of the generation loop's last iteration
    /\ LET calls == CallStarted("regen",
                        MakePrompt(FactsForLlm(facts, g_last_error),
                                   RuntimeErrorText(exec_err), script_attempt + 1))
       IN  \/ \E out \in LlmOutputs :
                /\ llm_calls' = Returned(calls)
                /\ llm_raw' = [id |-> Len(calls), kind |-> out]
                /\ llm_try' = 1
                /\ script_attempt' = script_attempt + 1
                /\ pc' = "exec"
                /\ UNCHANGED <<answer, last_error, g_last_error, attempt, exec_err>>
           \/ /\ \E f \in ApiFailures : ~LastApiAttempt(llm_try)
              /\ llm_calls' = calls
              /\ llm_try' = llm_try + 1
              /\ UNCHANGED <<pc, answer, last_error, g_last_error, attempt, llm_raw,
                             script_attempt, exec_err>>
           \/ /\ \E f \in ApiFailures : LastApiAttempt(llm_try)
              /\ llm_calls' = calls
              /\ llm_try' = 1
              /\ DetailReturn(NoAnswer, exec_err)  \* return None, str(exec_err)
    /\ UNCHANGED <<gen_requests, runs, recent>>
    /\ UNCHANGED <<current_url, facts, eval_attempt, resp_shape, correct, next_url,
                   reason, site, g_url, evars, hvars>>
    /\ UNCHANGED not_jdvars

\* run_worker from the return of generate_and_execute to its next call for
\* the same URL: the evaluator's verdict is well-formed with correct false
\* and eval_attempt <= MAX_EVAL_RETRIES (Case B or Case C)
DetailRetry ==
    /\ pc = "submit"
    /\ RetryAllowed(eval_attempt + 1)
    /\ eval_attempt' = eval_attempt + 1
    /\ \E r \in Reasons :
          /\ reason' = r
          /\ recent' = r
          /\ Call("retry", r)
    /\ llm_try' = 1
    /\ gen_requests' = 0
    /\ llm_calls' = <<>>
    /\ runs' = <<>>
    /\ UNCHANGED visit_requests
    /\ UNCHANGED <<current_url, facts, answer, last_error, resp_shape, correct,
                   next_url, evars, hvars>>
    /\ UNCHANGED not_jdvars

DetailNext ==
    \/ GenRequest
    \/ RunScript
    \/ RegenRequest
    \/ DetailRetry

SpecDetail == DetailInit /\ [][DetailNext]_vars

\* ------------------------------------------ the attachments of all the jobs
\* The loop "for att_url in media_sources" of extract_single_page and
\* _download_attachment, for the jobs that run in the process at one time.
\* An attachment URL is the sequence url.split("/") of its last segments.

MaxDownloads == 2     \* iterations of the loop, over all pages and jobs

SourcePages == {"/a", "/b"}
AttachmentUrls == {<<"/x", "data.csv">>, <<"/y", "data.csv">>, <<"/audio", "">>}

DEFAULT_MAX_BYTES == 5 * 1024 * 1024      \* utils/file_tools.py
\* len(content): nothing, a small file, a file over DEFAULT_MAX_BYTES
Sizes == {0, 1024, DEFAULT_MAX_BYTES + 1}

\* fname = url.split("/")[-1] or "file.bin"
FileName(u) == IF u[Len(u)] = "" THEN "file.bin" ELSE u[Len(u)]

\* os.path.join(tempfile.gettempdir(), f"tds_phase1_{fname_safe}")
LocalPath(u) == <<"tmpdir", "tds_phase1_", FileName(u)>>

\* the dictionary _download_attachment returns, but for its content_type,
\* with the job and the page it is appended for
Metadata(j, p, u, size) ==
    [job |-> j, page |-> p,
     id |-> <<"tds_phase1_", FileName(u)>>,
     filename |-> FileName(u),
     size_bytes |-> size,
     source_url |-> u,
     local_path |-> LocalPath(u)]

\* with open(local_path, "wb") as f: f.write(content_bytes)
WriteFile(j, u, size) ==
    [path \in DOMAIN disk \cup {LocalPath(u)} |->
        IF path = LocalPath(u)
        THEN [job |-> j, source_url |-> u, size |-> size]
        ELSE disk[path]]

\* one requests.get of an attachment URL, by the function that made it
Get(j, p, u, by, status) ==
    [job |-> j, page |-> p, url |-> u, by |-> by, status |-> status]

\* the iterations of the loop so far
Downloads == {<<g.job, g.page, g.url>> : g \in gets}

StoreInit ==
    /\ StartOfJob /\ CrawlOff /\ PageOff /\ ExecOff /\ DetailOff
    /\ StoreOff /\ EndpointOff /\ LogOff /\ ContentsOff /\ UrlOff

\* one iteration of "for att_url in media_sources" on page p of job j: the
\* page is extracted once in a job and seen_att_urls holds the URLs of this
\* page only
DownloadAttachment ==
    \E j \in Jobs, p \in SourcePages, u \in AttachmentUrls :
        /\ <<j, p, u>> \notin Downloads
        /\ Cardinality(Downloads) < MaxDownloads
        /\ \E st \in {200, 404}, content_bytes \in Sizes :    \* _static_fetch_raw
            LET first == Get(j, p, u, "_static_fetch_raw", st)
            IN  IF content_bytes # 0
                THEN \* _download_attachment(att_url, content_bytes=content_bytes)
                     /\ gets' = gets \cup {first}
                     /\ disk' = WriteFile(j, u, content_bytes)
                     /\ attached' = attached \cup {Metadata(j, p, u, content_bytes)}
                ELSE \* _download_attachment(att_url): requests.get again
                     \/ \* status_code != 200, or an exception: return None
                        /\ gets' = gets \cup
                               {first, Get(j, p, u, "_download_attachment", 404)}
                        /\ UNCHANGED <<disk, attached>>
                     \/ \E size \in Sizes :
                           /\ gets' = gets \cup
                                  {first, Get(j, p, u, "_download_attachment", 200)}
                           /\ disk' = WriteFile(j, u, size)
                           /\ attached' = attached \cup {Metadata(j, p, u, size)}
        /\ UNCHANGED not_svars

SpecStore == StoreInit /\ [][DownloadAttachment]_vars

\* ------------------------------------------------------- the endpoint /phase1
MaxRequests == 3      \* requests the endpoint receives

STUDENT_SECRET == "s3cret"                \* config.py, from the environment
Secrets == {STUDENT_SECRET, "wrong", ""}  \* req.secret

\* raise HTTPException(status_code=403, detail="Invalid secret")
Forbidden == [status_code |-> 403, detail |-> "Invalid secret", initial_url |-> NoUrl]

\* return {"status": "worker started", "initial_url": req.url}
WorkerStarted(url) ==
    [status_code |-> 200, detail |-> "worker started", initial_url |-> url]

EndpointInit ==
    /\ StartOfJob /\ CrawlOff /\ PageOff /\ ExecOff /\ DetailOff
    /\ StoreOff /\ EndpointOff /\ LogOff /\ ContentsOff /\ UrlOff

\* variant: the secret is not compared
Phase1_AnySecret ==
    /\ Len(replies) < MaxRequests
    /\ \E url \in Urls, secret \in Secrets :
          /\ tasks' = Append(tasks, [request |-> Len(replies) + 1,
                                     url |-> url, at |-> "added"])
          /\ replies' = Append(replies, [url |-> url, secret |-> secret,
                                         response |-> WorkerStarted(url)])
    /\ UNCHANGED not_nvars

\* the handler of POST /phase1
Phase1 ==
    /\ Len(replies) < MaxRequests
    /\ \E url \in Urls, secret \in Secrets :
          IF secret # STUDENT_SECRET
          THEN /\ replies' = Append(replies, [url |-> url, secret |-> secret,
                                              response |-> Forbidden])
               /\ UNCHANGED tasks
          ELSE \* background.add_task(run_worker, req.url)
               /\ tasks' = Append(tasks, [request |-> Len(replies) + 1,
                                          url |-> url, at |-> "added"])
               /\ replies' = Append(replies, [url |-> url, secret |-> secret,
                                              response |-> WorkerStarted(url)])
    /\ UNCHANGED not_nvars

\* the response has been sent: the background task calls run_worker(url)
StartWorker ==
    /\ \E t \in DOMAIN tasks :
          /\ tasks[t].at = "added"
          /\ tasks' = [tasks EXCEPT ![t].at = "running"]
    /\ UNCHANGED replies
    /\ UNCHANGED not_nvars

\* run_worker returns
WorkerReturns ==
    /\ \E t \in DOMAIN tasks :
          /\ tasks[t].at = "running"
          /\ tasks' = [tasks EXCEPT ![t].at = "returned"]
    /\ UNCHANGED replies
    /\ UNCHANGED not_nvars

EndpointNext ==
    \/ Phase1
    \/ StartWorker
    \/ WorkerReturns

SpecEndpoint == EndpointInit /\ [][EndpointNext]_vars

\* ------------------------------------ record_failed_submission, several jobs
\* The jobs of the process append to one file with no lock.  A record is
\* json.dumps(entry) + "\n"; the file object hands it to write(2), which may
\* take it whole or in several pieces.

MaxCalls == 2         \* calls of record_failed_submission by one job
MaxPieces == 2        \* write(2) calls one record may take

LogInit ==
    /\ StartOfJob /\ CrawlOff /\ PageOff /\ ExecOff /\ DetailOff
    /\ StoreOff /\ EndpointOff /\ LogOff /\ ContentsOff /\ UrlOff

\* record_failed_submission up to its first write(2): json.dumps or open
\* raises and the exception is logged, or the record is on its way in
\* "pieces" pieces
RecordCall ==
    \E j \in Jobs :
        /\ writer[j].left = 0
        /\ writer[j].calls < MaxCalls
        /\ \/ \* except Exception: logger.error(...)
              /\ writer' = [writer EXCEPT ![j].calls = @ + 1]
              /\ UNCHANGED file
           \/ \E pieces \in 1..MaxPieces :
                 /\ writer' = [writer EXCEPT ![j] =
                       [calls |-> @.calls + 1, left |-> pieces, of |-> pieces]]
                 /\ UNCHANGED file
        /\ UNCHANGED not_lvars

\* one write(2) on the file opened for appending
WritePiece ==
    \E j \in Jobs :
        /\ writer[j].left > 0
        /\ file' = Append(file, [job |-> j, record |-> writer[j].calls,
                                 piece |-> writer[j].of - writer[j].left + 1,
                                 of |-> writer[j].of])
        /\ writer' = [writer EXCEPT ![j].left = @ - 1]
        /\ UNCHANGED not_lvars

LogNext ==
    \/ RecordCall
    \/ WritePiece

SpecLog == LogInit /\ [][LogNext]_vars

\* ------------------------------- identify_quiz_components, one page's contents
\* A text is the number of its characters; "contents" is the sequence of the
\* pieces it is concatenated from.

MaxAudio == 2         \* audio attachments of a page

MAX_TEXT == 3000      \* _clean_contents: len(text) > 3000

\* text[:3000] + " ...[truncated]..." when the text is longer than 3000
CleanContents(n) ==
    IF n = 0 THEN <<>>
    ELSE IF n > MAX_TEXT
         THEN <<<<"text", MAX_TEXT>>, <<" ...[truncated]...", 18>>>>
         ELSE <<<<"text", n>>>>

\* the "[Audio transcription (...)]" blocks of the attachments, in order
RECURSIVE Transcriptions(_)
Transcriptions(ts) ==
    IF ts = <<>> THEN <<>>
    ELSE (IF ts[1] = 0 THEN <<>>
          ELSE <<<<"[Audio transcription]", 30>>, <<"transcript", ts[1]>>,
                 <<"newline", 1>>>>)
         \o Transcriptions(Tail(ts))

\* cleaned_text of one page, as the loop builds it
Contents(p) ==
    CleanContents(p.text)
    \o (IF p.inline_js = 0 THEN <<>>
        ELSE <<<<"[Javascript Extracted]", 26>>, <<"inline_js", p.inline_js>>,
               <<"newline", 1>>>>)
    \o Transcriptions(p.transcripts)

RECURSIVE Length(_)
Length(c) == IF c = <<>> THEN 0 ELSE c[1][2] + Length(Tail(c))

ContentsInit ==
    /\ StartOfJob /\ CrawlOff /\ PageOff /\ ExecOff /\ DetailOff
    /\ StoreOff /\ EndpointOff /\ LogOff /\ UrlOff
    /\ raw_page \in
          [\* len(text) once digit blocks are removed and whitespace collapsed
           text : {0, 1, MAX_TEXT, MAX_TEXT + 1, 2 * MAX_TEXT},
           \* len(_extract_inline_js(html_raw)): none, a short or a long script
           inline_js : {0, 40, MAX_TEXT + 1},
           \* len(_transcribe_audio(local_path)) of each audio attachment
           transcripts : UNION {[1..n -> {0, 25}] : n \in 0..MaxAudio}]
    /\ contents = NoContents

\* one iteration of "for p in raw_pages"
StructurePage ==
    /\ contents = NoContents
    /\ contents' = Contents(raw_page)
    /\ UNCHANGED raw_page
    /\ UNCHANGED not_tvars

SpecContents == ContentsInit /\ [][StructurePage]_vars

\* ------------------------------------- run_worker and the text of current_url
\* A URL is the sequence of the pieces of its text that run_worker looks
\* at: "?" and "email=" among the others.
MaxUrlSteps == 4      \* scrapes and submissions of one job

\* initial_url and the evaluator's next_url: without a query, with a query,
\* with an email parameter of its own
GivenUrls ==
    {<<"/q">>, <<"/q", "?", "id=1">>, <<"/q", "?", "email=", "other@example.com">>}

\* "piece in url"
Contains(url, piece) == \E i \in DOMAIN url : url[i] = piece

\* variant: the parameter is appended to every URL
WithEmail_Always(url) ==
    url \o <<IF Contains(url, "?") THEN "&" ELSE "?", "email=", STUDENT_EMAIL>>

\* if STUDENT_EMAIL and "email=" not in current_url:
\*     sep = "&" if "?" in current_url else "?"
\*     current_url = f"{current_url}{sep}email={STUDENT_EMAIL}"
WithEmail(url) ==
    IF STUDENT_EMAIL # "" /\ ~Contains(url, "email=")
    THEN url \o <<IF Contains(url, "?") THEN "&" ELSE "?", "email=", STUDENT_EMAIL>>
    ELSE url

UrlInit ==
    /\ StartOfJob /\ CrawlOff /\ PageOff /\ ExecOff /\ DetailOff
    /\ StoreOff /\ EndpointOff /\ LogOff /\ ContentsOff
    /\ url_pc = "top"
    /\ given_url \in GivenUrls
    /\ url_text = given_url
    /\ url_log = <<>>

\* the top of the outer loop: the email parameter, then the scrape, which
\* either raises (return) or is followed by the facts and the first answer
UrlScrape ==
    /\ url_pc = "top"
    /\ Len(url_log) < MaxUrlSteps
    /\ url_text' = WithEmail(url_text)
    /\ url_log' = Append(url_log, [op |-> "scrape", url |-> url_text',
                                   given |-> given_url])
    /\ url_pc' \in {"submit", "done"}
    /\ UNCHANGED given_url
    /\ UNCHANGED not_uvars

\* one iteration of the inner loop: submit_to_evaluator(current_url, answer),
\* then a return, a retry of the same URL (continue), or
\* current_url = next_url and the outer loop again
UrlSubmit ==
    /\ url_pc = "submit"
    /\ Len(url_log) < MaxUrlSteps
    /\ url_log' = Append(url_log, [op |-> "submit", url |-> url_text,
                                   given |-> given_url])
    /\ \/ /\ url_pc' \in {"submit", "done"}
          /\ UNCHANGED <<given_url, url_text>>
       \/ \E next \in GivenUrls :
             /\ given_url' = next
             /\ url_text' = next
             /\ url_pc' = "top"
    /\ UNCHANGED not_uvars

SpecUrl == UrlInit /\ [][UrlScrape \/ UrlSubmit]_vars

\* ------------------------------------------------------------ properties
\* run_worker has returned: nothing happens any more
Terminated == [][pc = "done" => UNCHANGED vars]_vars

\* the audit record of the submission whose verdict is being handled
SubmittedRecord ==
    [url |-> payload.url, answer |-> payload.answer, reason |-> reason,
     attempt_number |-> subs]

C2_CorrectWithoutNextTerminates ==
    /\ [][(pc = "submit" /\ resp_shape' = "ok" /\ correct' /\ next_url' = NoUrl)
            => (pc' = "decide" /\ log' = log)]_vars
    /\ [][(pc = "decide" /\ correct /\ next_url = NoUrl)
            => (pc' = "done" /\ log' = log /\ payload' = payload
                /\ facts' = facts)]_vars
    /\ Terminated

C2_Witness ==
    /\ pc = "done"
    /\ resp_shape = "ok" /\ correct /\ next_url = NoUrl
    /\ subs >= 1

\* C3: after the first submission of a URL is answered "incorrect, no next
\* URL", generate_and_execute is called again for the same URL with
\* prior_error = reason, without a scrape and without a return, and the next
\* payload carries the same URL.
C3_FirstMissRegeneratesForSameUrl ==
    /\ [][(pc = "decide" /\ ~correct /\ next_url = NoUrl /\ subs = 1)
            => (/\ pc' = "gen"
                /\ g_last_error' = reason
                /\ g_url' = current_url
                /\ attempt' = 1
                /\ current_url' = current_url
                /\ facts' = facts
                /\ visits' = visits)]_vars
    /\ [][(pc = "submit" /\ site = "retry")
            => (payload'.url = payload.url /\ payload'.url = current_url)]_vars

C3_Witness ==
    /\ pc = "gen" /\ site = "retry"
    /\ subs = 1 /\ ~correct /\ next_url = NoUrl
    /\ reason = "wrong" /\ g_last_error = "wrong"
    /\ g_url = payload.url

C5_MissKeepsUrlWhileRetriesRemain ==
    [][(pc = "decide" /\ ~correct /\ subs <= MAX_EVAL_RETRIES)
         => (/\ current_url' = current_url
             /\ visits' = visits
             /\ pc' = "gen"
             /\ g_url' = current_url
             /\ g_last_error' = reason)]_vars

C5_Witness ==
    /\ pc = "gen" /\ site = "retry"
    /\ subs = MAX_EVAL_RETRIES
    /\ ~correct /\ next_url # NoUrl /\ next_url # current_url
    /\ g_url = current_url

\* C6: a correct verdict with a next URL makes the job advance to it on any
\* attempt number, and every URL visit starts with eval_attempt = 0 and a
\* generate_and_execute call whose attempt counters are at their start.
C6_AdvanceResetsCounters ==
    /\ [][(pc = "decide" /\ correct /\ next_url # NoUrl)
            => (pc' = "scrape" /\ current_url' = next_url)]_vars
    /\ [][(pc = "scrape" /\ pc' # "done")
            => (/\ pc' = "gen"
                /\ attempt' = 1
                /\ script_attempt' = 1
                /\ llm_raw' = NoProg
                /\ g_last_error' = NoErr)]_vars
    /\ []((pc = "submit" /\ subs = 0) => eval_attempt = 0)
    /\ []((pc \in {"record", "decide"}) => eval_attempt = subs)

C6_Witness ==
    /\ pc = "submit" /\ visits = 2
    /\ subs = 0 /\ eval_attempt = 0
    /\ correct /\ next_url = current_url
    /\ wrongs = MAX_EVAL_RETRIES

\* C7: when no retry remains for the URL (eval_attempt > MAX_EVAL_RETRIES),
\* an incorrect verdict without next URL ends the job: current_url stays and
\* nothing is generated, executed or submitted afterwards.
C7_ExhaustedMissTerminates ==
    /\ [][(pc = "decide" /\ ~correct /\ next_url = NoUrl
           /\ subs > MAX_EVAL_RETRIES)
            => (pc' = "done" /\ current_url' = current_url
                /\ payload' = payload)]_vars
    /\ Terminated

C7_Witness ==
    /\ pc = "done"
    /\ resp_shape = "ok" /\ ~correct /\ next_url = NoUrl
    /\ subs = MAX_EVAL_RETRIES + 1

\* C8: a response without the 'correct' key or without the 'url' key ends
\* the job at once, on any attempt: no regeneration, no resubmission, no
\* advance and no audit record.
C8_MalformedVerdictTerminates ==
    /\ [][(pc = "submit" /\ resp_shape' # "ok")
            => (pc' = "done" /\ current_url' = current_url /\ log' = log
                /\ wrongs' = wrongs)]_vars
    /\ []((pc \in {"record", "decide"}) => resp_shape = "ok")
    /\ Terminated

C8_Witness ==
    /\ pc = "done"
    /\ resp_shape \in {"no_correct", "no_url"}
    /\ subs = 2

\* C9: after all 3 generation attempts of a generate_and_execute call have
\* failed, no submission is made to the evaluator.
C9_NoSubmissionAfterGenerationFailure ==
    [][(pc = "submit" /\ last_error = "llm_failed")
         => (payload' = payload /\ total_subs' = total_subs)]_vars

CallSteps == MAX_PROMPT_ATTEMPTS + (2 * MAX_SCRIPT_RETRIES - 1) + 3 + 1

VisitSteps == (MAX_EVAL_RETRIES + 1) * CallSteps + 2

CallsAfter ==
    IF pc \in {"gen", "exec", "regen", "submit"}
    THEN MAX_EVAL_RETRIES - subs
    ELSE MAX_EVAL_RETRIES + 1 - subs

Rank ==
    CASE pc = "done" -> 0
      [] pc = "scrape" -> (NumUrls - current_url) * VisitSteps + VisitSteps - 1
      [] pc = "gen" -> (NumUrls - current_url) * VisitSteps + CallsAfter * CallSteps
                       + (MAX_PROMPT_ATTEMPTS + 1 - attempt)
                       + (2 * MAX_SCRIPT_RETRIES - 1) + 3
      [] pc = "exec" -> (NumUrls - current_url) * VisitSteps + CallsAfter * CallSteps
                        + 2 * (MAX_SCRIPT_RETRIES - script_attempt) + 1 + 3
      [] pc = "regen" -> (NumUrls - current_url) * VisitSteps + CallsAfter * CallSteps
                         + 2 * (MAX_SCRIPT_RETRIES - script_attempt) + 3
      [] pc = "submit" -> (NumUrls - current_url) * VisitSteps + CallsAfter * CallSteps + 3
      [] pc = "record" -> (NumUrls - current_url) * VisitSteps + CallsAfter * CallSteps + 2
      [] pc = "decide" -> (NumUrls - current_url) * VisitSteps + CallsAfter * CallSteps + 1

\* the evaluator's next URL, when it names one, has not been visited: URLs are
\* opaque to run_worker, so a chain of distinct URLs is the chain 1, 2, ...
NextUrlIsFresh == next_url = NoUrl \/ next_url > current_url

\* C11: when the evaluator never names a URL already visited, run_worker
\* terminates: the number Rank of steps it can still take is never negative,
\* every step it takes makes Rank smaller, and once run_worker has returned
\* nothing happens any more.
C11_WorkerTerminates ==
    /\ [](Rank >= 0)
    /\ [][(pc = "decide" => NextUrlIsFresh) => Rank' < Rank]_vars
    /\ [][pc = "done" => UNCHANGED vars]_vars

C11_Witness ==
    /\ pc = "done"
    /\ visits = NumUrls /\ current_url = NumUrls
    /\ subs = MAX_EVAL_RETRIES + 1
    /\ ~correct /\ next_url = NoUrl /\ resp_shape = "ok"

\* C12: when the scrape of current_url raises, run_worker returns: the scrape
\* is not repeated, no program is generated or executed and nothing is
\* submitted for that URL, and nothing happens after the return.
C12_FailedScrapeTerminates ==
    /\ [][(pc = "scrape" /\ visits' = visits)
            => (/\ pc' = "done"
                /\ payload' = payload /\ total_subs' = total_subs
                /\ llm_raw' = llm_raw /\ answer' = answer
                /\ facts' = facts)]_vars
    /\ []((pc = "done" /\ facts # current_url) => payload.url # current_url)
    /\ [][pc = "done" => (pc' = "done" /\ payload' = payload /\ visits' = visits)]_vars

C12_Witness ==
    /\ pc = "done"
    /\ visits = 1 /\ facts = SeedUrl /\ current_url # SeedUrl
    /\ payload.url = SeedUrl

\* the URLs extract_single_page has been called for, and the depths
Fetched == {fetch_log[i].u : i \in DOMAIN fetch_log}

\* the links of the page record of u
LinksOf(u) ==
    IF \E i \in DOMAIN pages : pages[i].url = u
    THEN LET i == CHOOSE i \in DOMAIN pages : pages[i].url = u IN pages[i].links
    ELSE <<>>

\* C13: within one crawl extract_single_page is called at most once for each
\* URL, whatever the pages link to; when /a links to /b alone, /b links to
\* /a alone and max_depth >= 2, the crawl fetches exactly /a and /b.
C13_EachUrlFetchedOnce ==
    /\ \A i, j \in DOMAIN fetch_log :
          fetch_log[i].u = fetch_log[j].u => i = j
    /\ (/\ crawl_pc = "done" /\ max_depth >= 2
        /\ LinksOf(<<"/a">>) = << <<"/b">> >>
        /\ LinksOf(<<"/b">>) = << <<"/a">> >>)
         => (Fetched = {<<"/a">>, <<"/b">>} /\ Len(fetch_log) = 2)

C13_Witness ==
    /\ crawl_pc = "done" /\ max_depth >= 2
    /\ LinksOf(<<"/a">>) = << <<"/b">> >>
    /\ LinksOf(<<"/b">>) = << <<"/a">> >>
    /\ Len(pages) = 2

\* C14: the seed is fetched first, at depth 0, whatever max_depth is; every
\* other URL is fetched at a depth d with 1 <= d <= max_depth; the links of
\* a page reached at depth max_depth are never iterated.
C14_DepthBounded ==
    /\ \A i \in DOMAIN fetch_log :
          IF i = 1
          THEN fetch_log[i].u = SeedPage /\ fetch_log[i].depth = 0
          ELSE 1 <= fetch_log[i].depth /\ fetch_log[i].depth <= max_depth
    /\ (crawl_pc = "done") => Len(fetch_log) >= 1
    /\ \A k \in DOMAIN stack : stack[k].depth < max_depth
    /\ (crawl_call # NoCall) => crawl_call.depth <= max_depth

C14_Witness ==
    /\ crawl_pc = "done" /\ max_depth = 1
    /\ LinksOf(<<"/a">>) = << <<"/b">> >>
    /\ LinksOf(<<"/b">>) = << <<"/c">> >>
    /\ Fetched = {<<"/a">>, <<"/b">>}

\* C15: a URL whose fetch failed, the rendering failing too, has no page
\* record in the result.
C15_FailedFetchAddsNothing ==
    \A i \in DOMAIN fetch_log :
        fetch_log[i].failed => \A k \in DOMAIN pages : pages[k].url # fetch_log[i].u

\* C17: when the crawl has fetched a page whose raw content is a tree
\* configuration, the tree listing has been requested, and when the crawl
\* is over the facts carry github_tree_stats.
C17_TreeConfigFetchesTree ==
    (\E k \in DOMAIN pages : pages[k].url # ApiUrl /\ pages[k].html = "tree_config")
        => (/\ tree_gets >= 1
            /\ (crawl_pc = "done") => quiz_facts.github_tree_stats # NoStats)

\* C16: no URL that a page returned by extract_single_page has downloaded as
\* an attachment is in the page's links.
C16_AttachmentsNotInLinks ==
    (page # NoPage) => (page.attachments \cap Range(page.links) = {})

\* the last non-empty line of the child's output, or "" when there is none
LastLine(s) == IF Strip(s) = <<>> THEN "" ELSE Strip(s)[Len(Strip(s))]

\* C18: when the child exits with status 0 within the timeout and the last
\* non-empty line of its output is valid JSON, the result has status ok and
\* holds the value of that line, whatever lines come before it.
C18_LastLineIsParsed ==
    (/\ exec_pc = "returned"
     /\ child.ends = "exit" /\ child.returncode = 0
     /\ JsonLoads(<<LastLine(child.stdout)>>).ok)
        => (/\ result.status = "ok"
            /\ result.json = JsonLoads(<<LastLine(child.stdout)>>).value)

\* C19: a run that timed out or exited with a non-zero status never gives
\* status ok, whatever it printed: a timeout gives the timeout error, a
\* non-zero exit an error holding the captured stderr, and a zero exit whose
\* output does not parse an error holding the raw output.
C19_FailedRunIsNeverOk ==
    (exec_pc = "returned") =>
        /\ (child.ends = "timeout")
             => result = [status |-> "error", error |-> "timeout 25s"]
        /\ (child.ends = "exit" /\ child.returncode # 0)
             => (result.status = "error" /\ result.error = child.stderr)
        /\ (child.ends = "exit" /\ child.returncode = 0
            /\ ~JsonLoads(Strip(child.stdout)).ok)
             => (/\ result.status = "error"
                 /\ result.error = "stdout_not_json"
                 /\ result.raw_stdout = Strip(child.stdout))
        /\ (result.status = "ok")
             => (child.ends = "exit" /\ child.returncode = 0)

C19_Witness ==
    /\ exec_pc = "returned"
    /\ child.ends = "exit" /\ child.returncode = 1
    /\ child.stdout = << "{\"answer\": 42}" >>
    /\ result.status = "error" /\ result.error = "Traceback"

\* C20: when the launch of the child fails, the launch is tried again, in a
\* working directory created for that attempt.
C20_LaunchFailureIsRetried ==
    (exec_pc \in {"returned", "raised"} /\ child.launch = "oserror")
        => (launches >= 2 /\ temp_dirs = launches)

\* the call of generate_and_execute has returned
DetailReturned == pc = "submit"

\* the phase2_llm call, if any, that was asked for a new program after run k
\* and returned the program of run k + 1
RegenCallsAfter(k) ==
    {i \in 1..Len(llm_calls) :
        /\ llm_calls[i].phase = "regen"
        /\ llm_calls[i].prompt.attempt_number = k + 1
        /\ llm_calls[i].prompt.previous_error.text = runs[k].error
        /\ llm_calls[i].out = runs[k + 1].program}

\* C21: one call of generate_and_execute runs at most 3 scripts; run k + 1 is
\* of a program other than the one of run k, returned by a phase2_llm call
\* whose prompt carried the error of run k as previous_error
C21_RunsAreOfNewPrograms ==
    /\ Len(runs) <= MAX_SCRIPT_RETRIES
    /\ \A k \in 1..(Len(runs) - 1) :
          /\ runs[k].error # NoErr
          /\ runs[k + 1].program # runs[k].program
          /\ RegenCallsAfter(k) # {}

C21_Witness ==
    /\ Len(runs) = MAX_SCRIPT_RETRIES
    /\ runs[1].error # runs[2].error

\* C22: generate_and_execute returns the answer of a run with status ok and
\* no error, or no answer and an error; when 3 runs have failed it returns no
\* answer and the error of the third
C22_ReturnsAnswerOrLastError ==
    DetailReturned =>
        /\ \/ /\ last_error = NoErr
              /\ runs # <<>>
              /\ runs[Len(runs)].outcome = "ok"
              /\ answer = runs[Len(runs)].answer
           \/ /\ answer = NoAnswer
              /\ last_error # NoErr
        /\ (Len(runs) = MAX_SCRIPT_RETRIES /\ runs[Len(runs)].error # NoErr)
              => /\ answer = NoAnswer
                 /\ last_error = runs[MAX_SCRIPT_RETRIES].error

C22_Witness ==
    /\ DetailReturned
    /\ Len(runs) = MAX_SCRIPT_RETRIES
    /\ runs[3].error # NoErr
    /\ runs[3].error # runs[1].error

\* C23: the call ends with the error of extract_llm_code for a text without
\* final_answer only when no attempt of the loop it is in remains
C23_NoFinalAnswerIsRegenerated ==
    (DetailReturned /\ last_error = BuildError("no_final_answer"))
        => (attempt = MAX_PROMPT_ATTEMPTS \/ script_attempt = MAX_SCRIPT_RETRIES)

\* C30 as stated: the generation loop of one call sends at most 3 requests
C30_AtMostThreeRequests == gen_requests <= MAX_PROMPT_ATTEMPTS

\* the calls of phase2_llm made by the generation loop
GenCalls == {i \in 1..Len(llm_calls) : llm_calls[i].phase = "gen"}

\* C30: the generation loop of one call calls phase2_llm at most 3 times, and
\* each call sends at most 3 requests: at most 9 requests
C30_AtMostThreeCallsOfThreeRequests ==
    /\ Cardinality(GenCalls) <= MAX_PROMPT_ATTEMPTS
    /\ gen_requests <= MAX_PROMPT_ATTEMPTS * MAX_API_ATTEMPTS

C30_Witness ==
    /\ gen_requests = MAX_PROMPT_ATTEMPTS * MAX_API_ATTEMPTS
    /\ Cardinality(GenCalls) = MAX_PROMPT_ATTEMPTS
    /\ DetailReturned

\* C24: in one job an attachment URL is fetched over the network at most once
C24_SourceFetchedOnce ==
    \A j \in Jobs, u \in AttachmentUrls :
        Cardinality({g \in gets : g.job = j /\ g.url = u}) <= 1

\* C25: attachments of different jobs, or of different source URLs, are
\* never written to the same local path
C25_PathsDoNotCollide ==
    \A m, n \in attached :
        (m.job # n.job \/ m.source_url # n.source_url)
            => m.local_path # n.local_path

\* C28: no file over the size cap is on disk or among a page's attachments
C28_OversizeIsRejected ==
    /\ \A path \in DOMAIN disk : disk[path].size <= DEFAULT_MAX_BYTES
    /\ \A m \in attached : m.size_bytes <= DEFAULT_MAX_BYTES

\* the background tasks added for request i
TasksOf(i) == {t \in DOMAIN tasks : tasks[t].request = i}

\* C27: a request with the configured secret is answered "worker started"
\* and has exactly one run_worker task, for its URL, which has not run when
\* the answer is given; a request with another secret is answered 403 and
\* has no task
C27_OneWorkerPerAcceptedRequest ==
    /\ [](\A i \in DOMAIN replies :
            IF replies[i].secret = STUDENT_SECRET
            THEN /\ replies[i].response = WorkerStarted(replies[i].url)
                 /\ Cardinality(TasksOf(i)) = 1
                 /\ \A t \in TasksOf(i) : tasks[t].url = replies[i].url
            ELSE /\ replies[i].response = Forbidden
                 /\ TasksOf(i) = {})
    /\ [][replies' # replies =>
            /\ Len(replies') = Len(replies) + 1
            /\ \A t \in DOMAIN tasks' :
                  tasks'[t].request = Len(replies') => tasks'[t].at = "added"
            /\ \A t \in DOMAIN tasks : tasks'[t] = tasks[t]]_vars

C27_Witness ==
    /\ \E i \in DOMAIN replies :
          /\ replies[i].secret = STUDENT_SECRET
          /\ \E t \in TasksOf(i) : tasks[t].at = "running"
    /\ \E i \in DOMAIN replies : replies[i].secret # STUDENT_SECRET

\* C26: every record of every call that has returned is in the file, and
\* the pieces of a record follow one another with nothing between them
C26_EveryRecordIsOneLine ==
    /\ \A j \in Jobs :
          \A r \in 1..writer[j].calls :
              (r < writer[j].calls \/ writer[j].left = 0)
                  => \E i \in DOMAIN file :
                        file[i].job = j /\ file[i].record = r
    /\ \A i \in DOMAIN file :
          (file[i].piece < file[i].of /\ i < Len(file))
              => /\ file[i + 1].job = file[i].job
                 /\ file[i + 1].record = file[i].record

\* C29: contents longer than 3000 characters end with the truncation marker
C29_LongContentsEndWithMarker ==
    (contents # NoContents /\ Length(contents) > MAX_TEXT)
        => contents[Len(contents)][1] = " ...[truncated]..."

\* C31: a call of generate_and_execute that follows a verdict for the same
\* URL never starts the generation loop at its initial attempt number
C31_AttemptsAreNotReplenished ==
    [][(pc = "submit" /\ pc' = "gen") => attempt' # 1]_vars

\* C32: the facts run_worker holds never get the evaluator_feedback key, and
\* their student_email stays the one identify_quiz_components gave
C32_CanonicalFactsKeepNoFeedback ==
    /\ facts.evaluator_feedback = "absent"
    /\ facts.student_email = CanonicalFacts.student_email

C32_Witness ==
    /\ eval_attempt >= 1
    /\ Len(llm_calls) >= 2
    /\ \E i \in DOMAIN llm_calls :
          /\ llm_calls[i].prompt.facts.evaluator_feedback = "wrong"
          /\ llm_calls[i].prompt.facts.student_email = STUDENT_EMAIL

\* C34: every script run is of a text that a phase2_llm call returned, with
\* both markers, no disallowed pattern, no fence and final_answer assigned
C34_OnlyCheckedProgramsRun ==
    \A i \in DOMAIN runs :
        /\ runs[i].kind \notin ApiFailures
        /\ runs[i].kind \notin {"fenced", "no_final_answer"}
        /\ runs[i].program \in DOMAIN llm_calls
        /\ llm_calls[runs[i].program].out = runs[i].program

C34_Witness ==
    /\ Len(runs) = MAX_SCRIPT_RETRIES
    /\ Len(llm_calls) = MAX_PROMPT_ATTEMPTS + MAX_SCRIPT_RETRIES - 1

\* C35: the prompt of every phase2_llm call carries as previous_error the
\* last error of the visit (the verdict's reason, the exception of the
\* phase2_llm call before it, or the error of the run before it) and the
\* attempt number of the loop it is sent from
C35_PromptCarriesLatestError ==
    [][Len(llm_calls') > Len(llm_calls) =>
        LET c == llm_calls'[Len(llm_calls')]
        IN  /\ c.prompt.previous_error.text = recent
            /\ c.prompt.attempt_number =
                  IF c.phase = "gen" THEN attempt ELSE script_attempt + 1]_vars

C35_Witness ==
    /\ eval_attempt = MAX_EVAL_RETRIES
    /\ \E i, j \in DOMAIN llm_calls :
          /\ llm_calls[i].phase = "gen"
          /\ llm_calls[i].prompt.previous_error.text = "wrong"
          /\ llm_calls[j].phase = "gen"
          /\ llm_calls[j].prompt.previous_error.text = "llm_failed"
    /\ \E i \in DOMAIN llm_calls :
          /\ llm_calls[i].phase = "regen"
          /\ llm_calls[i].prompt.previous_error.text = "timeout 25s"

\* C39: one call of generate_and_execute makes at most 5 calls of phase2_llm,
\* each of at most 3 requests; a URL visit has at most 3 calls of
\* generate_and_execute and at most 45 requests
C39_AtMostFortyFiveRequests ==
    /\ Len(llm_calls) <= MAX_PROMPT_ATTEMPTS + MAX_SCRIPT_RETRIES - 1
    /\ llm_try <= MAX_API_ATTEMPTS
    /\ eval_attempt + 1 <= MAX_EVAL_RETRIES + 1
    /\ visit_requests <= 45

C39_Witness ==
    /\ visit_requests = 45
    /\ pc = "submit"

C33_FactsAreBuiltOncePerVisit ==
    /\ [](pc \in {"gen", "exec", "regen", "submit", "record", "decide"}
            => facts = current_url)
    /\ [][(facts' # facts \/ visits' # visits)
            => (/\ pc = "scrape" /\ pc' = "gen" /\ site' = "first"
                /\ facts' = current_url /\ visits' = visits + 1)]_vars
    /\ [][(pc = "decide" /\ pc' = "gen")
            => (/\ site' = "retry"
                /\ facts' = facts /\ visits' = visits
                /\ current_url' = current_url)]_vars
    /\ [][pc' = "scrape"
            => (pc = "decide" /\ current_url' = next_url
                /\ current_url' # NoUrl)]_vars

C33_Witness ==
    /\ visits = 2 /\ current_url # SeedUrl
    /\ facts = current_url
    /\ pc = "gen" /\ site = "retry"
    /\ subs = 2

\* the URLs at most k links away from the seed, by the links of the pages
\* the crawl has fetched
RECURSIVE WithinDistance(_)
WithinDistance(k) ==
    IF k = 0
    THEN {SeedPage}
    ELSE LET near == WithinDistance(k - 1)
         IN  near \cup UNION {Range(LinksOf(u)) : u \in near}

\* C37: when the crawl is over, every URL whose shortest link distance from
\* the seed is at most max_depth has been fetched
C37_EveryNearUrlIsFetched ==
    crawl_pc = "done" => WithinDistance(max_depth) \subseteq Fetched

\* C38: a file is on disk, and an entry is among a page's attachments, only
\* for an attachment URL whose fetch for that page returned status 200
C38_OnlyOkFetchesAreAttached ==
    /\ \A m \in attached :
          \E g \in gets :
              /\ g.job = m.job /\ g.page = m.page /\ g.url = m.source_url
              /\ g.status = 200
    /\ \A path \in DOMAIN disk :
          \E g \in gets :
              /\ g.job = disk[path].job /\ g.url = disk[path].source_url
              /\ g.status = 200

\* the number of pieces "email=" of a URL
RECURSIVE EmailParameters(_)
EmailParameters(url) ==
    IF url = <<>>
    THEN 0
    ELSE (IF Head(url) = "email=" THEN 1 ELSE 0) + EmailParameters(Tail(url))

\* C40: every URL run_worker scrapes or submits contains "email=", exactly
\* once; it is the URL as given when that one contains "email=" already, and
\* otherwise the URL as given followed by a separator ("&" after a query,
\* "?" without one) and email=STUDENT_EMAIL; the URL submitted is the URL
\* scraped before it
C40_UrlsCarryEmailOnce ==
    \A i \in DOMAIN url_log :
        LET e == url_log[i]
        IN  /\ EmailParameters(e.url) = 1
            /\ Contains(e.given, "email=") => e.url = e.given
            /\ ~Contains(e.given, "email=")
                 => /\ Len(e.url) = Len(e.given) + 3
                    /\ SubSeq(e.url, 1, Len(e.given)) = e.given
                    /\ e.url[Len(e.given) + 1]
                         = (IF Contains(e.given, "?") THEN "&" ELSE "?")
                    /\ e.url[Len(e.given) + 2] = "email="
                    /\ e.url[Len(e.given) + 3] = STUDENT_EMAIL
            /\ e.op = "submit"
                 => /\ i > 1
                    /\ url_log[i - 1].url = e.url

C40_Witness ==
    /\ Len(url_log) = 4
    /\ url_log[2].op = "submit" /\ url_log[2].given = <<"/q", "?", "id=1">>
    /\ url_log[4].op = "submit"
    /\ url_log[4].given = <<"/q", "?", "email=", "other@example.com">>

====
